---- MODULE Spec2Model ----
(***************************************************************************)
(* GamePlan (app.py): a Streamlit script that samples exercise names from  *)
(* a static catalog, embeds them in a prompt and sends the prompt to a     *)
(* chat-completion service.                                                *)
(*                                                                         *)
(* A Python str is modelled as the sequence of its Unicode code points, so *)
(* that lower(), strip() and the substring test `in` are computed rather   *)
(* than assumed.  A comment after a literal gives its text.                *)
(***************************************************************************)
EXTENDS Integers, Sequences, FiniteSets, TLC

VARIABLES
    environ,       \* os.environ.get("OPENAI_API_KEY"): None while unset
    startKey,      \* the credential available when the process started
    apiKey,        \* openai.api_key, the attribute all sessions assign (line 10)
    library,       \* the module global EXERCISE_LIBRARY at run time
    keywordTable,  \* the module global SPORT_KEYWORDS at run time
    widgets,       \* the input widgets the session's latest script run rendered
    shown,         \* the messages the session's latest script run put on the page
    pc,            \* where the session is: "idle": no operation in progress;
                   \* "read": os.getenv of line 10 has returned; "assigned":
                   \* line 10 has assigned; "waiting": blocked in the completion
                   \* call; "done": the operation has finished
    last,          \* the frame of the operation in progress or just finished
    otherPc,       \* another session's run: "idle", or "read" between its
                   \* os.getenv and its assignment of line 10
    otherKey       \* the value the other session's os.getenv returned

vars == <<environ, startKey, apiKey, library, keywordTable, widgets, shown,
          pc, last, otherPc, otherKey>>

----------------------------------------------------------------------------
(* Bounds of the explored inputs. *)

MaxN == 6          \* largest count n passed to sample_exercises
MaxNeg == 2        \* the smallest count n passed is -MaxNeg
MaxFrags == 2      \* a detector text is made of at most MaxFrags fragments
MaxMsgFrags == 2   \* a free-text request is made of at most MaxMsgFrags fragments

----------------------------------------------------------------------------
(* Python values. *)

\* Python's None.  No code point is negative, so this value differs from
\* every str.
None == <<-1>>

InRuns(c, runs) == \E r \in runs : r[1] <= c /\ c <= r[2]

\* The simple lowercase mappings of str.lower() (Unicode 14.0.0), as runs
\* <<first, last, step, delta>>: every step-th code point from first to last
\* maps to itself plus delta.
LowerRuns ==
    { 
      <<65, 90, 1, 32>>, <<192, 214, 1, 32>>, <<216, 222, 1, 32>>, <<256, 302,
      2, 1>>, <<306, 310, 2, 1>>, <<313, 327, 2, 1>>, <<330, 374, 2, 1>>,
      <<376, 376, 1, -121>>, <<377, 381, 2, 1>>, <<385, 385, 1, 210>>, <<386,
      388, 2, 1>>, <<390, 390, 1, 206>>, <<391, 391, 1, 1>>, <<393, 394, 1,
      205>>, <<395, 395, 1, 1>>, <<398, 398, 1, 79>>, <<399, 399, 1, 202>>,
      <<400, 400, 1, 203>>, <<401, 401, 1, 1>>, <<403, 403, 1, 205>>, <<404,
      404, 1, 207>>, <<406, 406, 1, 211>>, <<407, 407, 1, 209>>, <<408, 408,
      1, 1>>, <<412, 412, 1, 211>>, <<413, 413, 1, 213>>, <<415, 415, 1,
      214>>, <<416, 420, 2, 1>>, <<422, 422, 1, 218>>, <<423, 423, 1, 1>>,
      <<425, 425, 1, 218>>, <<428, 428, 1, 1>>, <<430, 430, 1, 218>>, <<431,
      431, 1, 1>>, <<433, 434, 1, 217>>, <<435, 437, 2, 1>>, <<439, 439, 1,
      219>>, <<440, 440, 1, 1>>, <<444, 444, 1, 1>>, <<452, 452, 1, 2>>,
      <<453, 453, 1, 1>>, <<455, 455, 1, 2>>, <<456, 456, 1, 1>>, <<458, 458,
      1, 2>>, <<459, 475, 2, 1>>, <<478, 494, 2, 1>>, <<497, 497, 1, 2>>,
      <<498, 500, 2, 1>>, <<502, 502, 1, -97>>, <<503, 503, 1, -56>>, <<504,
      542, 2, 1>>, <<544, 544, 1, -130>>, <<546, 562, 2, 1>>, <<570, 570, 1,
      10795>>, <<571, 571, 1, 1>>, <<573, 573, 1, -163>>, <<574, 574, 1,
      10792>>, <<577, 577, 1, 1>>, <<579, 579, 1, -195>>, <<580, 580, 1, 69>>,
      <<581, 581, 1, 71>>, <<582, 590, 2, 1>>, <<880, 882, 2, 1>>, <<886, 886,
      1, 1>>, <<895, 895, 1, 116>>, <<902, 902, 1, 38>>, <<904, 906, 1, 37>>,
      <<908, 908, 1, 64>>, <<910, 911, 1, 63>>, <<913, 929, 1, 32>>, <<931,
      939, 1, 32>>, <<975, 975, 1, 8>>, <<984, 1006, 2, 1>>, <<1012, 1012, 1,
      -60>>, <<1015, 1015, 1, 1>>, <<1017, 1017, 1, -7>>, <<1018, 1018, 1,
      1>>, <<1021, 1023, 1, -130>>, <<1024, 1039, 1, 80>>, <<1040, 1071, 1,
      32>>, <<1120, 1152, 2, 1>>, <<1162, 1214, 2, 1>>, <<1216, 1216, 1, 15>>,
      <<1217, 1229, 2, 1>>, <<1232, 1326, 2, 1>>, <<1329, 1366, 1, 48>>,
      <<4256, 4293, 1, 7264>>, <<4295, 4295, 1, 7264>>, <<4301, 4301, 1,
      7264>>, <<5024, 5103, 1, 38864>>, <<5104, 5109, 1, 8>>, <<7312, 7354, 1,
      -3008>>, <<7357, 7359, 1, -3008>>, <<7680, 7828, 2, 1>>, <<7838, 7838,
      1, -7615>>, <<7840, 7934, 2, 1>>, <<7944, 7951, 1, -8>>, <<7960, 7965,
      1, -8>>, <<7976, 7983, 1, -8>>, <<7992, 7999, 1, -8>>, <<8008, 8013, 1,
      -8>>, <<8025, 8031, 2, -8>>, <<8040, 8047, 1, -8>>, <<8072, 8079, 1,
      -8>>, <<8088, 8095, 1, -8>>, <<8104, 8111, 1, -8>>, <<8120, 8121, 1,
      -8>>, <<8122, 8123, 1, -74>>, <<8124, 8124, 1, -9>>, <<8136, 8139, 1,
      -86>>, <<8140, 8140, 1, -9>>, <<8152, 8153, 1, -8>>, <<8154, 8155, 1,
      -100>>, <<8168, 8169, 1, -8>>, <<8170, 8171, 1, -112>>, <<8172, 8172, 1,
      -7>>, <<8184, 8185, 1, -128>>, <<8186, 8187, 1, -126>>, <<8188, 8188, 1,
      -9>>, <<8486, 8486, 1, -7517>>, <<8490, 8490, 1, -8383>>, <<8491, 8491,
      1, -8262>>, <<8498, 8498, 1, 28>>, <<8544, 8559, 1, 16>>, <<8579, 8579,
      1, 1>>, <<9398, 9423, 1, 26>>, <<11264, 11311, 1, 48>>, <<11360, 11360,
      1, 1>>, <<11362, 11362, 1, -10743>>, <<11363, 11363, 1, -3814>>,
      <<11364, 11364, 1, -10727>>, <<11367, 11371, 2, 1>>, <<11373, 11373, 1,
      -10780>>, <<11374, 11374, 1, -10749>>, <<11375, 11375, 1, -10783>>,
      <<11376, 11376, 1, -10782>>, <<11378, 11378, 1, 1>>, <<11381, 11381, 1,
      1>>, <<11390, 11391, 1, -10815>>, <<11392, 11490, 2, 1>>, <<11499,
      11501, 2, 1>>, <<11506, 11506, 1, 1>>, <<42560, 42604, 2, 1>>, <<42624,
      42650, 2, 1>>, <<42786, 42798, 2, 1>>, <<42802, 42862, 2, 1>>, <<42873,
      42875, 2, 1>>, <<42877, 42877, 1, -35332>>, <<42878, 42886, 2, 1>>,
      <<42891, 42891, 1, 1>>, <<42893, 42893, 1, -42280>>, <<42896, 42898, 2,
      1>>, <<42902, 42920, 2, 1>>, <<42922, 42922, 1, -42308>>, <<42923,
      42923, 1, -42319>>, <<42924, 42924, 1, -42315>>, <<42925, 42925, 1,
      -42305>>, <<42926, 42926, 1, -42308>>, <<42928, 42928, 1, -42258>>,
      <<42929, 42929, 1, -42282>>, <<42930, 42930, 1, -42261>>, <<42931,
      42931, 1, 928>>, <<42932, 42946, 2, 1>>, <<42948, 42948, 1, -48>>,
      <<42949, 42949, 1, -42307>>, <<42950, 42950, 1, -35384>>, <<42951,
      42953, 2, 1>>, <<42960, 42960, 1, 1>>, <<42966, 42968, 2, 1>>, <<42997,
      42997, 1, 1>>, <<65313, 65338, 1, 32>>, <<66560, 66599, 1, 40>>,
      <<66736, 66771, 1, 40>>, <<66928, 66964, 2, 39>>, <<66929, 66937, 2,
      39>>, <<66941, 66953, 2, 39>>, <<66957, 66961, 2, 39>>, <<66965, 66965,
      1, 39>>, <<68736, 68786, 1, 64>>, <<71840, 71871, 1, 32>>, <<93760,
      93791, 1, 32>>, <<125184, 125217, 1, 34>> }

\* Case_Ignorable code points, as runs <<first, last>>.
CaseIgnorableRuns ==
    { 
      <<39, 39>>, <<46, 46>>, <<58, 58>>, <<94, 94>>, <<96, 96>>, <<168,
      168>>, <<173, 173>>, <<175, 175>>, <<180, 180>>, <<183, 184>>, <<688,
      879>>, <<884, 885>>, <<890, 890>>, <<900, 901>>, <<903, 903>>, <<1155,
      1161>>, <<1369, 1369>>, <<1375, 1375>>, <<1425, 1469>>, <<1471, 1471>>,
      <<1473, 1474>>, <<1476, 1477>>, <<1479, 1479>>, <<1524, 1524>>, <<1536,
      1541>>, <<1552, 1562>>, <<1564, 1564>>, <<1600, 1600>>, <<1611, 1631>>,
      <<1648, 1648>>, <<1750, 1757>>, <<1759, 1768>>, <<1770, 1773>>, <<1807,
      1807>>, <<1809, 1809>>, <<1840, 1866>>, <<1958, 1968>>, <<2027, 2037>>,
      <<2042, 2042>>, <<2045, 2045>>, <<2070, 2093>>, <<2137, 2139>>, <<2184,
      2184>>, <<2192, 2193>>, <<2200, 2207>>, <<2249, 2306>>, <<2362, 2362>>,
      <<2364, 2364>>, <<2369, 2376>>, <<2381, 2381>>, <<2385, 2391>>, <<2402,
      2403>>, <<2417, 2417>>, <<2433, 2433>>, <<2492, 2492>>, <<2497, 2500>>,
      <<2509, 2509>>, <<2530, 2531>>, <<2558, 2558>>, <<2561, 2562>>, <<2620,
      2620>>, <<2625, 2626>>, <<2631, 2632>>, <<2635, 2637>>, <<2641, 2641>>,
      <<2672, 2673>>, <<2677, 2677>>, <<2689, 2690>>, <<2748, 2748>>, <<2753,
      2757>>, <<2759, 2760>>, <<2765, 2765>>, <<2786, 2787>>, <<2810, 2815>>,
      <<2817, 2817>>, <<2876, 2876>>, <<2879, 2879>>, <<2881, 2884>>, <<2893,
      2893>>, <<2901, 2902>>, <<2914, 2915>>, <<2946, 2946>>, <<3008, 3008>>,
      <<3021, 3021>>, <<3072, 3072>>, <<3076, 3076>>, <<3132, 3132>>, <<3134,
      3136>>, <<3142, 3144>>, <<3146, 3149>>, <<3157, 3158>>, <<3170, 3171>>,
      <<3201, 3201>>, <<3260, 3260>>, <<3263, 3263>>, <<3270, 3270>>, <<3276,
      3277>>, <<3298, 3299>>, <<3328, 3329>>, <<3387, 3388>>, <<3393, 3396>>,
      <<3405, 3405>>, <<3426, 3427>>, <<3457, 3457>>, <<3530, 3530>>, <<3538,
      3540>>, <<3542, 3542>>, <<3633, 3633>>, <<3636, 3642>>, <<3654, 3662>>,
      <<3761, 3761>>, <<3764, 3772>>, <<3782, 3782>>, <<3784, 3789>>, <<3864,
      3865>>, <<3893, 3893>>, <<3895, 3895>>, <<3897, 3897>>, <<3953, 3966>>,
      <<3968, 3972>>, <<3974, 3975>>, <<3981, 3991>>, <<3993, 4028>>, <<4038,
      4038>>, <<4141, 4144>>, <<4146, 4151>>, <<4153, 4154>>, <<4157, 4158>>,
      <<4184, 4185>>, <<4190, 4192>>, <<4209, 4212>>, <<4226, 4226>>, <<4229,
      4230>>, <<4237, 4237>>, <<4253, 4253>>, <<4348, 4348>>, <<4957, 4959>>,
      <<5906, 5908>>, <<5938, 5939>>, <<5970, 5971>>, <<6002, 6003>>, <<6068,
      6069>>, <<6071, 6077>>, <<6086, 6086>>, <<6089, 6099>>, <<6103, 6103>>,
      <<6109, 6109>>, <<6155, 6159>>, <<6211, 6211>>, <<6277, 6278>>, <<6313,
      6313>>, <<6432, 6434>>, <<6439, 6440>>, <<6450, 6450>>, <<6457, 6459>>,
      <<6679, 6680>>, <<6683, 6683>>, <<6742, 6742>>, <<6744, 6750>>, <<6752,
      6752>>, <<6754, 6754>>, <<6757, 6764>>, <<6771, 6780>>, <<6783, 6783>>,
      <<6823, 6823>>, <<6832, 6862>>, <<6912, 6915>>, <<6964, 6964>>, <<6966,
      6970>>, <<6972, 6972>>, <<6978, 6978>>, <<7019, 7027>>, <<7040, 7041>>,
      <<7074, 7077>>, <<7080, 7081>>, <<7083, 7085>>, <<7142, 7142>>, <<7144,
      7145>>, <<7149, 7149>>, <<7151, 7153>>, <<7212, 7219>>, <<7222, 7223>>,
      <<7288, 7293>>, <<7376, 7378>>, <<7380, 7392>>, <<7394, 7400>>, <<7405,
      7405>>, <<7412, 7412>>, <<7416, 7417>>, <<7468, 7530>>, <<7544, 7544>>,
      <<7579, 7679>>, <<8125, 8125>>, <<8127, 8129>>, <<8141, 8143>>, <<8157,
      8159>>, <<8173, 8175>>, <<8189, 8190>>, <<8203, 8207>>, <<8216, 8217>>,
      <<8228, 8228>>, <<8231, 8231>>, <<8234, 8238>>, <<8288, 8292>>, <<8294,
      8303>>, <<8305, 8305>>, <<8319, 8319>>, <<8336, 8348>>, <<8400, 8432>>,
      <<11388, 11389>>, <<11503, 11505>>, <<11631, 11631>>, <<11647, 11647>>,
      <<11744, 11775>>, <<11823, 11823>>, <<12293, 12293>>, <<12330, 12333>>,
      <<12337, 12341>>, <<12347, 12347>>, <<12441, 12446>>, <<12540, 12542>>,
      <<40981, 40981>>, <<42232, 42237>>, <<42508, 42508>>, <<42607, 42610>>,
      <<42612, 42621>>, <<42623, 42623>>, <<42652, 42655>>, <<42736, 42737>>,
      <<42752, 42785>>, <<42864, 42864>>, <<42888, 42890>>, <<42994, 42996>>,
      <<43000, 43001>>, <<43010, 43010>>, <<43014, 43014>>, <<43019, 43019>>,
      <<43045, 43046>>, <<43052, 43052>>, <<43204, 43205>>, <<43232, 43249>>,
      <<43263, 43263>>, <<43302, 43309>>, <<43335, 43345>>, <<43392, 43394>>,
      <<43443, 43443>>, <<43446, 43449>>, <<43452, 43453>>, <<43471, 43471>>,
      <<43493, 43494>>, <<43561, 43566>>, <<43569, 43570>>, <<43573, 43574>>,
      <<43587, 43587>>, <<43596, 43596>>, <<43632, 43632>>, <<43644, 43644>>,
      <<43696, 43696>>, <<43698, 43700>>, <<43703, 43704>>, <<43710, 43711>>,
      <<43713, 43713>>, <<43741, 43741>>, <<43756, 43757>>, <<43763, 43764>>,
      <<43766, 43766>>, <<43867, 43871>>, <<43881, 43883>>, <<44005, 44005>>,
      <<44008, 44008>>, <<44013, 44013>>, <<64286, 64286>>, <<64434, 64450>>,
      <<65024, 65039>>, <<65043, 65043>>, <<65056, 65071>>, <<65106, 65106>>,
      <<65109, 65109>>, <<65279, 65279>>, <<65287, 65287>>, <<65294, 65294>>,
      <<65306, 65306>>, <<65342, 65342>>, <<65344, 65344>>, <<65392, 65392>>,
      <<65438, 65439>>, <<65507, 65507>>, <<65529, 65531>>, <<66045, 66045>>,
      <<66272, 66272>>, <<66422, 66426>>, <<67456, 67461>>, <<67463, 67504>>,
      <<67506, 67514>>, <<68097, 68099>>, <<68101, 68102>>, <<68108, 68111>>,
      <<68152, 68154>>, <<68159, 68159>>, <<68325, 68326>>, <<68900, 68903>>,
      <<69291, 69292>>, <<69446, 69456>>, <<69506, 69509>>, <<69633, 69633>>,
      <<69688, 69702>>, <<69744, 69744>>, <<69747, 69748>>, <<69759, 69761>>,
      <<69811, 69814>>, <<69817, 69818>>, <<69821, 69821>>, <<69826, 69826>>,
      <<69837, 69837>>, <<69888, 69890>>, <<69927, 69931>>, <<69933, 69940>>,
      <<70003, 70003>>, <<70016, 70017>>, <<70070, 70078>>, <<70089, 70092>>,
      <<70095, 70095>>, <<70191, 70193>>, <<70196, 70196>>, <<70198, 70199>>,
      <<70206, 70206>>, <<70367, 70367>>, <<70371, 70378>>, <<70400, 70401>>,
      <<70459, 70460>>, <<70464, 70464>>, <<70502, 70508>>, <<70512, 70516>>,
      <<70712, 70719>>, <<70722, 70724>>, <<70726, 70726>>, <<70750, 70750>>,
      <<70835, 70840>>, <<70842, 70842>>, <<70847, 70848>>, <<70850, 70851>>,
      <<71090, 71093>>, <<71100, 71101>>, <<71103, 71104>>, <<71132, 71133>>,
      <<71219, 71226>>, <<71229, 71229>>, <<71231, 71232>>, <<71339, 71339>>,
      <<71341, 71341>>, <<71344, 71349>>, <<71351, 71351>>, <<71453, 71455>>,
      <<71458, 71461>>, <<71463, 71467>>, <<71727, 71735>>, <<71737, 71738>>,
      <<71995, 71996>>, <<71998, 71998>>, <<72003, 72003>>, <<72148, 72151>>,
      <<72154, 72155>>, <<72160, 72160>>, <<72193, 72202>>, <<72243, 72248>>,
      <<72251, 72254>>, <<72263, 72263>>, <<72273, 72278>>, <<72281, 72283>>,
      <<72330, 72342>>, <<72344, 72345>>, <<72752, 72758>>, <<72760, 72765>>,
      <<72767, 72767>>, <<72850, 72871>>, <<72874, 72880>>, <<72882, 72883>>,
      <<72885, 72886>>, <<73009, 73014>>, <<73018, 73018>>, <<73020, 73021>>,
      <<73023, 73029>>, <<73031, 73031>>, <<73104, 73105>>, <<73109, 73109>>,
      <<73111, 73111>>, <<73459, 73460>>, <<78896, 78904>>, <<92912, 92916>>,
      <<92976, 92982>>, <<92992, 92995>>, <<94031, 94031>>, <<94095, 94111>>,
      <<94176, 94177>>, <<94179, 94180>>, <<110576, 110579>>, <<110581,
      110587>>, <<110589, 110590>>, <<113821, 113822>>, <<113824, 113827>>,
      <<118528, 118573>>, <<118576, 118598>>, <<119143, 119145>>, <<119155,
      119170>>, <<119173, 119179>>, <<119210, 119213>>, <<119362, 119364>>,
      <<121344, 121398>>, <<121403, 121452>>, <<121461, 121461>>, <<121476,
      121476>>, <<121499, 121503>>, <<121505, 121519>>, <<122880, 122886>>,
      <<122888, 122904>>, <<122907, 122913>>, <<122915, 122916>>, <<122918,
      122922>>, <<123184, 123197>>, <<123566, 123566>>, <<123628, 123631>>,
      <<125136, 125142>>, <<125252, 125259>>, <<127995, 127999>>, <<917505,
      917505>>, <<917536, 917631>>, <<917760, 917999>> }

\* Cased code points that are not Case_Ignorable, as runs <<first, last>>.
CasedRuns ==
    { 
      <<65, 90>>, <<97, 122>>, <<170, 170>>, <<181, 181>>, <<186, 186>>,
      <<192, 214>>, <<216, 246>>, <<248, 442>>, <<444, 447>>, <<452, 659>>,
      <<661, 687>>, <<880, 883>>, <<886, 887>>, <<891, 893>>, <<895, 895>>,
      <<902, 902>>, <<904, 906>>, <<908, 908>>, <<910, 929>>, <<931, 1013>>,
      <<1015, 1153>>, <<1162, 1327>>, <<1329, 1366>>, <<1376, 1416>>, <<4256,
      4293>>, <<4295, 4295>>, <<4301, 4301>>, <<4304, 4346>>, <<4349, 4351>>,
      <<5024, 5109>>, <<5112, 5117>>, <<7296, 7304>>, <<7312, 7354>>, <<7357,
      7359>>, <<7424, 7467>>, <<7531, 7543>>, <<7545, 7578>>, <<7680, 7957>>,
      <<7960, 7965>>, <<7968, 8005>>, <<8008, 8013>>, <<8016, 8023>>, <<8025,
      8025>>, <<8027, 8027>>, <<8029, 8029>>, <<8031, 8061>>, <<8064, 8116>>,
      <<8118, 8124>>, <<8126, 8126>>, <<8130, 8132>>, <<8134, 8140>>, <<8144,
      8147>>, <<8150, 8155>>, <<8160, 8172>>, <<8178, 8180>>, <<8182, 8188>>,
      <<8450, 8450>>, <<8455, 8455>>, <<8458, 8467>>, <<8469, 8469>>, <<8473,
      8477>>, <<8484, 8484>>, <<8486, 8486>>, <<8488, 8488>>, <<8490, 8493>>,
      <<8495, 8500>>, <<8505, 8505>>, <<8508, 8511>>, <<8517, 8521>>, <<8526,
      8526>>, <<8544, 8575>>, <<8579, 8580>>, <<9398, 9449>>, <<11264,
      11387>>, <<11390, 11492>>, <<11499, 11502>>, <<11506, 11507>>, <<11520,
      11557>>, <<11559, 11559>>, <<11565, 11565>>, <<42560, 42605>>, <<42624,
      42651>>, <<42786, 42863>>, <<42865, 42887>>, <<42891, 42894>>, <<42896,
      42954>>, <<42960, 42961>>, <<42963, 42963>>, <<42965, 42969>>, <<42997,
      42998>>, <<43002, 43002>>, <<43824, 43866>>, <<43872, 43880>>, <<43888,
      43967>>, <<64256, 64262>>, <<64275, 64279>>, <<65313, 65338>>, <<65345,
      65370>>, <<66560, 66639>>, <<66736, 66771>>, <<66776, 66811>>, <<66928,
      66938>>, <<66940, 66954>>, <<66956, 66962>>, <<66964, 66965>>, <<66967,
      66977>>, <<66979, 66993>>, <<66995, 67001>>, <<67003, 67004>>, <<68736,
      68786>>, <<68800, 68850>>, <<71840, 71903>>, <<93760, 93823>>, <<119808,
      119892>>, <<119894, 119964>>, <<119966, 119967>>, <<119970, 119970>>,
      <<119973, 119974>>, <<119977, 119980>>, <<119982, 119993>>, <<119995,
      119995>>, <<119997, 120003>>, <<120005, 120069>>, <<120071, 120074>>,
      <<120077, 120084>>, <<120086, 120092>>, <<120094, 120121>>, <<120123,
      120126>>, <<120128, 120132>>, <<120134, 120134>>, <<120138, 120144>>,
      <<120146, 120485>>, <<120488, 120512>>, <<120514, 120538>>, <<120540,
      120570>>, <<120572, 120596>>, <<120598, 120628>>, <<120630, 120654>>,
      <<120656, 120686>>, <<120688, 120712>>, <<120714, 120744>>, <<120746,
      120770>>, <<120772, 120779>>, <<122624, 122633>>, <<122635, 122654>>,
      <<125184, 125251>>, <<127280, 127305>>, <<127312, 127337>>, <<127344,
      127369>> }

\* The code points str.strip() removes (str.isspace), as runs <<first, last>>.
SpaceRuns ==
    { 
      <<9, 13>>, <<28, 32>>, <<133, 133>>, <<160, 160>>, <<5760, 5760>>,
      <<8192, 8202>>, <<8232, 8233>>, <<8239, 8239>>, <<8287, 8287>>, <<12288,
      12288>> }

\* Whether the capital sigma at position i of s is final: going back over
\* case-ignorable code points there is a cased one, and going forward over
\* case-ignorable code points there is none.
final_sigma(s, i) ==
    LET before == {j \in 1..(i - 1) : ~InRuns(s[j], CaseIgnorableRuns)}
        after == {j \in (i + 1)..Len(s) : ~InRuns(s[j], CaseIgnorableRuns)}
    IN  /\ before # {}
        /\ InRuns(s[CHOOSE j \in before : \A k \in before : k <= j], CasedRuns)
        /\ \/ after = {}
           \/ ~InRuns(s[CHOOSE j \in after : \A k \in after : j <= k], CasedRuns)

\* The lowercase of the code point at position i of s.  The ASCII branch is
\* the first run of LowerRuns.
lower_at(s, i) ==
    LET c == s[i]
    IN  IF c < 128 THEN <<IF 65 <= c /\ c <= 90 THEN c + 32 ELSE c>>
        ELSE IF c = 931 THEN <<IF final_sigma(s, i) THEN 962 ELSE 963>>
        ELSE IF c = 304 THEN <<105, 775>>
        ELSE LET hit == {r \in LowerRuns :
                            r[1] <= c /\ c <= r[2] /\ (c - r[1]) % r[3] = 0}
             IN  IF hit = {} THEN <<c>> ELSE <<c + (CHOOSE r \in hit : TRUE)[4]>>

RECURSIVE lower_from(_, _)
lower_from(s, i) ==
    IF i > Len(s) THEN <<>> ELSE lower_at(s, i) \o lower_from(s, i + 1)

\* str.lower()
lower(s) == lower_from(s, 1)

RECURSIVE lstrip(_)
lstrip(s) ==
    IF s # <<>> /\ InRuns(Head(s), SpaceRuns) THEN lstrip(Tail(s)) ELSE s

RECURSIVE rstrip(_)
rstrip(s) ==
    IF s # <<>> /\ InRuns(s[Len(s)], SpaceRuns)
    THEN rstrip(SubSeq(s, 1, Len(s) - 1)) ELSE s

\* str.strip()
strip(s) == rstrip(lstrip(s))

\* The substring test `kw in text`.
contains(kw, text) ==
    \E i \in 0..(Len(text) - Len(kw)) : SubSeq(text, i + 1, i + Len(kw)) = kw

----------------------------------------------------------------------------
(* The static tables. *)

FULL_BODY == <<102, 117, 108, 108, 32, 98, 111, 100, 121>> (* full body *)

\* The exercise catalog.
EXERCISE_LIBRARY ==
    (<<108, 101, 103, 115>> (* legs *) :>
        << <<66, 111, 100, 121, 119, 101, 105, 103, 104, 116, 32, 83, 113, 117, 97, 116, 115>> (* Bodyweight Squats *),
           <<87, 97, 108, 107, 105, 110, 103, 32, 76, 117, 110, 103, 101, 115>> (* Walking Lunges *),
           <<71, 108, 117, 116, 101, 32, 66, 114, 105, 100, 103, 101, 115>> (* Glute Bridges *),
           <<82, 111, 109, 97, 110, 105, 97, 110, 32, 68, 101, 97, 100, 108, 105, 102, 116, 115, 32, 40, 100, 117, 109, 98, 98, 101, 108, 108, 115, 32, 111, 114, 32, 98, 97, 114, 98, 101, 108, 108, 41>> (* Romanian Deadlifts (dumbbells or barbell) *),
           <<67, 97, 108, 102, 32, 82, 97, 105, 115, 101, 115>> (* Calf Raises *) >>)
 @@ (<<117, 112, 112, 101, 114, 32, 98, 111, 100, 121>> (* upper body *) :>
        << <<80, 117, 115, 104, 45, 85, 112, 115>> (* Push-Ups *),
           <<68, 117, 109, 98, 98, 101, 108, 108, 32, 82, 111, 119, 115>> (* Dumbbell Rows *),
           <<83, 104, 111, 117, 108, 100, 101, 114, 32, 80, 114, 101, 115, 115>> (* Shoulder Press *),
           <<66, 101, 110, 99, 104, 32, 80, 114, 101, 115, 115>> (* Bench Press *),
           <<76, 97, 116, 32, 80, 117, 108, 108, 100, 111, 119, 110, 32, 111, 114, 32, 65, 115, 115, 105, 115, 116, 101, 100, 32, 80, 117, 108, 108, 45, 85, 112>> (* Lat Pulldown or Assisted Pull-Up *) >>)
 @@ (<<99, 111, 114, 101>> (* core *) :>
        << <<80, 108, 97, 110, 107>> (* Plank *),
           <<68, 101, 97, 100, 32, 66, 117, 103>> (* Dead Bug *),
           <<83, 105, 100, 101, 32, 80, 108, 97, 110, 107>> (* Side Plank *),
           <<82, 117, 115, 115, 105, 97, 110, 32, 84, 119, 105, 115, 116, 115>> (* Russian Twists *),
           <<66, 105, 114, 100, 32, 68, 111, 103, 115>> (* Bird Dogs *) >>)
 @@ (<<102, 117, 108, 108, 32, 98, 111, 100, 121>> (* full body *) :>
        << <<66, 117, 114, 112, 101, 101, 115>> (* Burpees *),
           <<75, 101, 116, 116, 108, 101, 98, 101, 108, 108, 32, 83, 119, 105, 110, 103, 115>> (* Kettlebell Swings *),
           <<84, 104, 114, 117, 115, 116, 101, 114, 115>> (* Thrusters *),
           <<77, 111, 117, 110, 116, 97, 105, 110, 32, 67, 108, 105, 109, 98, 101, 114, 115>> (* Mountain Climbers *),
           <<70, 97, 114, 109, 101, 114, 8217, 115, 32, 67, 97, 114, 114, 121>> (* Farmer\u2019s Carry *) >>)
 @@ (<<98, 97, 115, 107, 101, 116, 98, 97, 108, 108>> (* basketball *) :>
        << <<76, 97, 116, 101, 114, 97, 108, 32, 66, 111, 117, 110, 100, 115>> (* Lateral Bounds *),
           <<66, 117, 108, 103, 97, 114, 105, 97, 110, 32, 83, 112, 108, 105, 116, 32, 83, 113, 117, 97, 116, 115>> (* Bulgarian Split Squats *),
           <<66, 111, 120, 32, 74, 117, 109, 112, 115>> (* Box Jumps *),
           <<83, 105, 110, 103, 108, 101, 45, 76, 101, 103, 32, 82, 111, 109, 97, 110, 105, 97, 110, 32, 68, 101, 97, 100, 108, 105, 102, 116, 115>> (* Single-Leg Romanian Deadlifts *),
           <<68, 101, 102, 101, 110, 115, 105, 118, 101, 32, 83, 108, 105, 100, 101, 115>> (* Defensive Slides *) >>)
 @@ (<<115, 111, 99, 99, 101, 114>> (* soccer *) :>
        << <<83, 105, 110, 103, 108, 101, 45, 76, 101, 103, 32, 83, 113, 117, 97, 116, 115, 32, 116, 111, 32, 66, 101, 110, 99, 104>> (* Single-Leg Squats to Bench *),
           <<82, 101, 118, 101, 114, 115, 101, 32, 76, 117, 110, 103, 101, 115>> (* Reverse Lunges *),
           <<78, 111, 114, 100, 105, 99, 32, 72, 97, 109, 115, 116, 114, 105, 110, 103, 32, 67, 117, 114, 108, 115>> (* Nordic Hamstring Curls *),
           <<67, 111, 112, 101, 110, 104, 97, 103, 101, 110, 32, 80, 108, 97, 110, 107, 115>> (* Copenhagen Planks *),
           <<65, 103, 105, 108, 105, 116, 121, 32, 76, 97, 100, 100, 101, 114, 32, 68, 114, 105, 108, 108, 115>> (* Agility Ladder Drills *) >>)
 @@ (<<114, 117, 110, 110, 105, 110, 103>> (* running *) :>
        << <<67, 97, 108, 102, 32, 82, 97, 105, 115, 101, 115>> (* Calf Raises *),
           <<83, 105, 110, 103, 108, 101, 45, 76, 101, 103, 32, 71, 108, 117, 116, 101, 32, 66, 114, 105, 100, 103, 101, 115>> (* Single-Leg Glute Bridges *),
           <<72, 105, 112, 32, 84, 104, 114, 117, 115, 116, 115>> (* Hip Thrusts *),
           <<83, 116, 101, 112, 45, 85, 112, 115>> (* Step-Ups *),
           <<84, 101, 109, 112, 111, 32, 73, 110, 116, 101, 114, 118, 97, 108, 115, 32, 111, 110, 32, 84, 114, 101, 97, 100, 109, 105, 108, 108>> (* Tempo Intervals on Treadmill *) >>)
 @@ (<<116, 101, 110, 110, 105, 115>> (* tennis *) :>
        << <<76, 97, 116, 101, 114, 97, 108, 32, 76, 117, 110, 103, 101, 115>> (* Lateral Lunges *),
           <<77, 101, 100, 105, 99, 105, 110, 101, 32, 66, 97, 108, 108, 32, 82, 111, 116, 97, 116, 105, 111, 110, 97, 108, 32, 84, 104, 114, 111, 119, 115>> (* Medicine Ball Rotational Throws *),
           <<83, 105, 110, 103, 108, 101, 45, 65, 114, 109, 32, 68, 117, 109, 98, 98, 101, 108, 108, 32, 82, 111, 119, 115>> (* Single-Arm Dumbbell Rows *),
           <<70, 97, 114, 109, 101, 114, 8217, 115, 32, 67, 97, 114, 114, 121>> (* Farmer\u2019s Carry *),
           <<83, 112, 108, 105, 116, 32, 83, 113, 117, 97, 116, 32, 74, 117, 109, 112, 115>> (* Split Squat Jumps *) >>)
 @@ (<<118, 111, 108, 108, 101, 121, 98, 97, 108, 108>> (* volleyball *) :>
        << <<83, 113, 117, 97, 116, 32, 74, 117, 109, 112, 115>> (* Squat Jumps *),
           <<79, 118, 101, 114, 104, 101, 97, 100, 32, 80, 114, 101, 115, 115>> (* Overhead Press *),
           <<80, 108, 97, 110, 107, 32, 116, 111, 32, 80, 117, 115, 104, 45, 85, 112>> (* Plank to Push-Up *),
           <<66, 114, 111, 97, 100, 32, 74, 117, 109, 112, 115>> (* Broad Jumps *),
           <<66, 97, 110, 100, 32, 69, 120, 116, 101, 114, 110, 97, 108, 32, 82, 111, 116, 97, 116, 105, 111, 110, 115>> (* Band External Rotations *) >>)

\* The keyword table: a dict, iterated in insertion order, so a sequence of
\* (sport, keywords) items.
SPORT_KEYWORDS ==
    << [sport |-> <<98, 97, 115, 107, 101, 116, 98, 97, 108, 108>> (* basketball *),
        keywords |-> << <<98, 97, 115, 107, 101, 116, 98, 97, 108, 108>> (* basketball *), <<98, 98, 97, 108, 108>> (* bball *), <<104, 111, 111, 112, 115>> (* hoops *) >>],
       [sport |-> <<115, 111, 99, 99, 101, 114>> (* soccer *),
        keywords |-> << <<115, 111, 99, 99, 101, 114>> (* soccer *), <<102, 111, 111, 116, 98, 97, 108, 108>> (* football *), <<102, 117, 116, 98, 111, 108>> (* futbol *) >>],
       [sport |-> <<114, 117, 110, 110, 105, 110, 103>> (* running *),
        keywords |-> << <<114, 117, 110, 110, 105, 110, 103>> (* running *), <<114, 117, 110, 110, 101, 114>> (* runner *), <<109, 97, 114, 97, 116, 104, 111, 110>> (* marathon *), <<53, 107>> (* 5k *), <<49, 48, 107>> (* 10k *) >>],
       [sport |-> <<116, 101, 110, 110, 105, 115>> (* tennis *),
        keywords |-> << <<116, 101, 110, 110, 105, 115>> (* tennis *) >>],
       [sport |-> <<118, 111, 108, 108, 101, 121, 98, 97, 108, 108>> (* volleyball *),
        keywords |-> << <<118, 111, 108, 108, 101, 121, 98, 97, 108, 108>> (* volleyball *), <<98, 101, 97, 99, 104, 32, 118, 111, 108, 108, 101, 121, 98, 97, 108, 108>> (* beach volleyball *) >> ] >>

\* Variant: a select box offering an area the catalog has no list for.
FOCUS_OPTIONS_with_arms == << <<70, 117, 108, 108, 32, 98, 111, 100, 121>> (* Full body *), <<76, 101, 103, 115>> (* Legs *), <<85, 112, 112, 101, 114, 32, 98, 111, 100, 121>> (* Upper body *), <<65, 114, 109, 115>> (* Arms *) >>

\* The options of the "Focus area" select box; the first is the default.
FOCUS_OPTIONS == << <<70, 117, 108, 108, 32, 98, 111, 100, 121>> (* Full body *), <<76, 101, 103, 115>> (* Legs *), <<85, 112, 112, 101, 114, 32, 98, 111, 100, 121>> (* Upper body *), <<67, 111, 114, 101>> (* Core *) >>

----------------------------------------------------------------------------
(* detect_sport_from_text *)

\* The inner loop: the first index of a keyword of kws, from position j on,
\* that occurs in text_lower; 0 when there is none.
RECURSIVE first_keyword(_, _, _)
first_keyword(kws, text_lower, j) ==
    IF j > Len(kws) THEN 0
    ELSE IF contains(kws[j], text_lower) THEN j
    ELSE first_keyword(kws, text_lower, j + 1)

\* Variant: the scan keeps going and the last matching sport wins.
RECURSIVE detect_from_last_match(_, _, _)
detect_from_last_match(table, text_lower, i) ==
    IF i > Len(table) THEN None
    ELSE LET later == detect_from_last_match(table, text_lower, i + 1)
         IN  IF later # None THEN later
             ELSE IF first_keyword(table[i].keywords, text_lower, 1) # 0
             THEN table[i].sport
             ELSE None

\* The outer loop over the items of the table, from item i on.
RECURSIVE detect_from(_, _, _)
detect_from(table, text_lower, i) ==
    IF i > Len(table) THEN None
    ELSE IF first_keyword(table[i].keywords, text_lower, 1) # 0 THEN table[i].sport
    ELSE detect_from(table, text_lower, i + 1)

detect_sport_from_text(table, text) == detect_from(table, lower(text), 1)

----------------------------------------------------------------------------
(* sample_exercises *)

min(a, b) == IF a <= b THEN a ELSE b

\* The text of the ValueError random.sample raises.
SAMPLE_ERROR == <<83, 97, 109, 112, 108, 101, 32, 108, 97, 114, 103, 101, 114, 32, 116, 104, 97, 110, 32, 112, 111, 112, 117, 108, 97, 116, 105, 111, 110, 32, 111, 114, 32, 105, 115, 32, 110, 101, 103, 97, 116, 105, 118, 101>> (* Sample larger than population or is negative *)

\* Variant: drawing with replacement (random.choices).
random_sample_with_replacement(population, k) ==
    IF k < 0 \/ k > Len(population)
    THEN {[raised |-> TRUE, value |-> <<>>, error |-> SAMPLE_ERROR]}
    ELSE {[raised |-> FALSE, value |-> [i \in 1..k |-> population[p[i]]],
           error |-> <<>>] :
            p \in [1..k -> 1..Len(population)]}

\* random.sample(population, k): k entries at pairwise distinct positions, in
\* any order; ValueError when k is negative or exceeds the population.
random_sample(population, k) ==
    IF k < 0 \/ k > Len(population)
    THEN {[raised |-> TRUE, value |-> <<>>, error |-> SAMPLE_ERROR]}
    ELSE {[raised |-> FALSE, value |-> [i \in 1..k |-> population[p[i]]],
           error |-> <<>>] :
            p \in {q \in [1..k -> 1..Len(population)] :
                     \A i, j \in 1..k : i # j => q[i] # q[j]}}

\* Variant: the label is looked up without lower().
resolve_focus_area_no_lower(lib, focus_area) ==
    IF focus_area \in DOMAIN lib THEN focus_area ELSE FULL_BODY

\* Lines 106-108: the catalog key the label resolves to.
resolve_focus_area(lib, focus_area) ==
    IF lower(focus_area) \in DOMAIN lib THEN lower(focus_area) ELSE FULL_BODY

\* The set of outcomes of sample_exercises(focus_area, n): the returned list,
\* or the exception raised.
sample_exercises(lib, focus_area, n) ==
    LET exercises == lib[resolve_focus_area(lib, focus_area)]
    IN  random_sample(exercises, min(n, Len(exercises)))

\* Variant: the fallback stores the default list under the unknown label
\* (EXERCISE_LIBRARY.setdefault).
library_after_sample_setdefault(lib, focus_area, n) ==
    IF lower(focus_area) \in DOMAIN lib THEN lib
    ELSE (lower(focus_area) :> lib[FULL_BODY]) @@ lib

\* EXERCISE_LIBRARY after a call of sample_exercises: the function assigns
\* only to its locals and random.sample copies what it draws from.
library_after_sample(lib, focus_area, n) == lib

\* SPORT_KEYWORDS after a call of detect_sport_from_text: only read.
keywords_after_detect(table, text) == table

----------------------------------------------------------------------------
(* The script: one run of app.py from top to bottom. *)

\* load_dotenv() (line 9): an entry of the .env file becomes the environment
\* variable unless the variable is already set.
load_dotenv(env, file) == IF env = None /\ file # None THEN file ELSE env

\* Variant: `openai.api_key is None`, which lets an empty credential through.
CredentialMissing_none_only(key) == key = None

\* `not openai.api_key`: None and the empty string are falsy.
CredentialMissing(key) == key = None \/ key = <<>>

\* The input widgets a run renders once it is past the credential check.
WIDGETS == {"level", "goal", "minutes", "mood", "focus", "user_message", "generate"}

CREDENTIAL_ERROR ==
    [kind |-> "error",
     text |-> <<79, 80, 69, 78, 65, 73, 95, 65, 80, 73, 95, 75, 69, 89, 32, 110, 111, 116, 32, 102, 111, 117, 110, 100, 46, 32, 80, 108, 101, 97, 115, 101, 32, 115, 101, 116, 32, 105, 116, 32, 97, 115, 32, 97, 110, 32, 101, 110, 118, 105, 114, 111, 110, 109, 101, 110, 116, 32, 118, 97, 114, 105, 97, 98, 108, 101, 32, 111, 114, 32, 105, 110, 32, 97, 32, 46, 101, 110, 118, 32, 102, 105, 108, 101, 46>> (* OPENAI_API_KEY not found. Please set it as an environment variable or in a .env file. *)]

EMPTY_WARNING ==
    [kind |-> "warning",
     text |-> <<80, 108, 101, 97, 115, 101, 32, 116, 121, 112, 101, 32, 115, 111, 109, 101, 116, 104, 105, 110, 103, 32, 97, 98, 111, 117, 116, 32, 116, 104, 101, 32, 119, 111, 114, 107, 111, 117, 116, 32, 121, 111, 117, 32, 119, 97, 110, 116, 46>> (* Please type something about the workout you want. *)]

PLAN_HEADER ==
    [kind |-> "markdown", text |-> <<35, 35, 35, 32, 128221, 32, 89, 111, 117, 114, 32, 71, 97, 109, 101, 80, 108, 97, 110>> (* ### \U0001f4dd Your GamePlan *)]

ERROR_PREFIX == <<83, 111, 109, 101, 116, 104, 105, 110, 103, 32, 119, 101, 110, 116, 32, 119, 114, 111, 110, 103, 32, 119, 104, 105, 108, 101, 32, 103, 101, 110, 101, 114, 97, 116, 105, 110, 103, 32, 121, 111, 117, 114, 32, 112, 108, 97, 110, 58, 32>> (* Something went wrong while generating your plan:  *)

MODEL_NAME == <<103, 112, 116, 45, 52, 111, 45, 109, 105, 110, 105>> (* gpt-4o-mini *)

\* Variant: `not user_message`, without strip().
IsBlank_no_strip(user_message) == user_message = <<>>

\* `not user_message.strip()`
IsBlank(user_message) == strip(user_message) = <<>>

\* What openai.ChatCompletion.create and the indexing of its response can do:
\* return the generated text, or raise an exception with some text.
COMPLETIONS ==
    {[ok |-> TRUE, text |-> <<49, 46, 32, 83, 117, 109, 109, 97, 114, 121, 32, 50, 46, 32, 87, 97, 114, 109, 45, 117, 112, 32, 51, 46, 32, 77, 97, 105, 110, 32, 119, 111, 114, 107, 111, 117, 116>> (* 1. Summary 2. Warm-up 3. Main workout *)],
     [ok |-> FALSE, text |-> <<82, 97, 116, 101, 32, 108, 105, 109, 105, 116, 32, 114, 101, 97, 99, 104, 101, 100>> (* Rate limit reached *)],
     [ok |-> FALSE, text |-> <<67, 111, 110, 110, 101, 99, 116, 105, 111, 110, 32, 101, 114, 114, 111, 114, 46>> (* Connection error. *)]}

\* generate_workout_plan up to the completion call (lines 132-172), with the
\* sampler's draw `picked`: the outcomes of the sampler calls and the request
\* about to be sent, or the exception raised before any request.
prepare_workout_plan(user_message, focus, picked) ==
    IF picked.raised
    THEN [raised |-> TRUE, value |-> picked.error, sampled |-> <<picked>>,
          requests |-> <<>>]
    ELSE [raised |-> FALSE, value |-> <<>>, sampled |-> <<picked>>,
          requests |-> <<[model |-> MODEL_NAME, focus |-> focus,
                          user_message |-> user_message, hint |-> picked.value]>>]

\* Variant: a failed completion call is sent a second time.
complete_workout_plan_retry(requests, outcome) ==
    IF outcome.ok
    THEN [raised |-> FALSE, value |-> outcome.text, requests |-> requests,
          answers |-> <<outcome>>]
    ELSE [raised |-> TRUE, value |-> outcome.text,
          requests |-> requests \o requests, answers |-> <<outcome, outcome>>]

\* generate_workout_plan from the completion call on (lines 173-183), with the
\* service's answer `outcome`: the requests sent, the answers received, and
\* the returned plan or the raised exception's text.
complete_workout_plan(requests, outcome) ==
    [raised |-> ~outcome.ok, value |-> outcome.text, requests |-> requests,
     answers |-> <<outcome>>]

\* Lines 257-261: what the handler shows for the plan or the exception.
show_result(raised, value) ==
    IF raised THEN <<[kind |-> "error", text |-> ERROR_PREFIX \o value]>>
    ELSE <<PLAN_HEADER, [kind |-> "markdown", text |-> value]>>

\* The possible courses of one run of the script from the test of line 12,
\* which reads openai.api_key, up to the point where the run ends or blocks in
\* the completion call; they differ in what the sampler draws.  The static
\* page text (title, examples) is the same in every run that gets past line
\* 14 and is left out of `shown`.
script_run(key, lib, generate, user_message, focus) ==
    IF CredentialMissing(key)
    THEN {[shown |-> <<CREDENTIAL_ERROR>>, widgets |-> {}, handled |-> FALSE,
           sampled |-> <<>>, requests |-> <<>>, waiting |-> FALSE]}
    ELSE IF ~generate
    THEN {[shown |-> <<>>, widgets |-> WIDGETS, handled |-> FALSE,
           sampled |-> <<>>, requests |-> <<>>, waiting |-> FALSE]}
    ELSE IF IsBlank(user_message)
    THEN {[shown |-> <<EMPTY_WARNING>>, widgets |-> WIDGETS, handled |-> TRUE,
           sampled |-> <<>>, requests |-> <<>>, waiting |-> FALSE]}
    ELSE {LET r == prepare_workout_plan(user_message, focus, picked)
          IN  [shown |-> IF r.raised THEN show_result(TRUE, r.value) ELSE <<>>,
               widgets |-> WIDGETS, handled |-> TRUE, sampled |-> r.sampled,
               requests |-> r.requests, waiting |-> ~r.raised] :
            picked \in sample_exercises(lib, focus, 3)}

----------------------------------------------------------------------------
(* Inputs. *)

Range(s) == {s[i] : i \in DOMAIN s}

RECURSIVE Concats(_, _)
Concats(F, k) ==
    IF k = 0 THEN {<<>>}
    ELSE LET prev == Concats(F, k - 1) IN prev \cup {p \o f : p \in prev, f \in F}

TextFragments ==
    { <<73, 32, 119, 97, 110, 116, 32, 97, 32, 113, 117, 105, 99, 107, 32, 97, 114, 109, 32, 100, 97, 121, 46>> (* I want a quick arm day. *), <<108, 101, 103, 32, 100, 97, 121, 32, 102, 111, 114, 32, 98, 97, 115, 107, 101, 116, 98, 97, 108, 108>> (* leg day for basketball *), <<115, 111, 99, 99, 101, 114>> (* soccer *),
      <<66, 97, 115, 107, 101, 116, 98, 97, 108, 108>> (* Basketball *), <<102, 111, 111, 116>> (* foot *), <<98, 97, 108, 108>> (* ball *), <<66, 66, 65, 76, 76>> (* BBALL *), <<32>> (*   *), <<53, 75>> (* 5K *), <<84, 101, 110, 110, 105, 115>> (* Tennis *),
      <<98, 101, 97, 99, 104, 32, 118, 111, 108, 108, 101, 121, 98, 97, 108, 108>> (* beach volleyball *), <<114, 117, 110, 110, 101, 114>> (* runner *), <<53, 8490>> (* 5\u212a *) }

Texts == Concats(TextFragments, MaxFrags)

MessageFragments ==
    { <<32>> (*   *), <<160>> (* \xa0 *), <<108, 101, 103, 32, 100, 97, 121, 32, 102, 111, 114, 32, 98, 97, 115, 107, 101, 116, 98, 97, 108, 108>> (* leg day for basketball *) }

Messages == Concats(MessageFragments, MaxMsgFrags)

Labels ==
    { <<76, 101, 103, 115>> (* Legs *), <<108, 101, 103, 115>> (* legs *), <<76, 69, 71, 83>> (* LEGS *), <<85, 112, 112, 101, 114, 32, 98, 111, 100, 121>> (* Upper body *), <<67, 111, 114, 101>> (* Core *), <<70, 117, 108, 108, 32, 98, 111, 100, 121>> (* Full body *),
      <<98, 97, 115, 107, 101, 116, 98, 97, 108, 108>> (* basketball *), <<84, 101, 110, 110, 105, 115>> (* Tennis *), <<97, 114, 109, 115>> (* arms *), <<108, 101, 103>> (* leg *), <<>>,
      <<66, 65, 83, 8490, 69, 84, 66, 65, 76, 76>> (* BAS\u212aETBALL *) }

Counts == (0 - MaxNeg)..MaxN

\* The values of the environment variable.
Credentials == {None, <<>>, <<115, 107, 45, 116, 101, 115, 116>> (* sk-test *)}

\* The OPENAI_API_KEY entry of the .env file: None without one.
FileEntries == {None, <<115, 107, 45, 116, 101, 115, 116>> (* sk-test *)}

----------------------------------------------------------------------------
(* The state machine. *)

NoFrame ==
    [op |-> "none", key |-> None, checked |-> None, generate |-> FALSE,
     text |-> <<>>, focus |-> <<>>, n |-> 0, raised |-> FALSE, ret |-> <<>>,
     handled |-> FALSE, sampled |-> <<>>, requests |-> <<>>, answers |-> <<>>]

\* The process has started and no session has run the script yet.
Init ==
    /\ environ \in Credentials
    /\ \E file \in FileEntries : startKey = load_dotenv(environ, file)
    /\ apiKey = None
    /\ library = EXERCISE_LIBRARY
    /\ keywordTable = SPORT_KEYWORDS
    /\ widgets = {}
    /\ shown = <<>>
    /\ pc = "idle"
    /\ last = NoFrame
    /\ otherPc = "idle"
    /\ otherKey = None

\* Streamlit starts a run of the script for the session: at start-up and
\* after every interaction with a widget the previous run rendered.  The run
\* executes load_dotenv() and the os.getenv of line 10; `file` is the entry
\* of the .env file at that time.
ReadEnv ==
    /\ pc = "idle"
    /\ \E file \in FileEntries : environ' = load_dotenv(environ, file)
    /\ last' = [NoFrame EXCEPT !.op = "run", !.key = environ']
    /\ pc' = "read"
    /\ UNCHANGED <<startKey, apiKey, library, keywordTable, widgets, shown,
                   otherPc, otherKey>>

\* Line 10 assigns the value read to openai.api_key.
AssignKey ==
    /\ pc = "read"
    /\ apiKey' = last.key
    /\ pc' = "assigned"
    /\ UNCHANGED <<environ, startKey, library, keywordTable, widgets, shown,
                   last, otherPc, otherKey>>

\* The run goes on from line 12, which tests openai.api_key as it is now.
\* Before any widget exists the inputs have their defaults and the button
\* cannot have been pressed.  The run ends, or blocks in the completion call
\* of line 173.
Run ==
    /\ pc = "assigned"
    /\ \E generate \in (IF "generate" \in widgets THEN BOOLEAN ELSE {FALSE}),
          user_message \in (IF "user_message" \in widgets THEN Messages ELSE {<<>>}),
          focus \in (IF "focus" \in widgets THEN Range(FOCUS_OPTIONS)
                                            ELSE {FOCUS_OPTIONS[1]}) :
         \E r \in script_run(apiKey, library, generate, user_message, focus) :
            /\ shown' = r.shown
            /\ widgets' = r.widgets
            /\ library' = IF r.sampled # <<>>
                          THEN library_after_sample(library, focus, 3)
                          ELSE library
            /\ last' = [last EXCEPT !.checked = apiKey, !.generate = generate,
                           !.text = user_message, !.focus = focus,
                           !.handled = r.handled, !.sampled = r.sampled,
                           !.requests = r.requests]
            /\ pc' = IF r.waiting THEN "waiting" ELSE "done"
    /\ UNCHANGED <<environ, startKey, apiKey, keywordTable, otherPc, otherKey>>

\* The completion call returns or raises and the run shows the result.
Answer ==
    /\ pc = "waiting"
    /\ \E outcome \in COMPLETIONS :
         LET c == complete_workout_plan(last.requests, outcome)
         IN  /\ shown' = show_result(c.raised, c.value)
             /\ last' = [last EXCEPT !.requests = c.requests, !.answers = c.answers]
    /\ pc' = "done"
    /\ UNCHANGED <<environ, startKey, apiKey, library, keywordTable, widgets,
                   otherPc, otherKey>>

\* Another session's run executes load_dotenv() and the os.getenv of line 10.
OtherReadEnv ==
    /\ otherPc = "idle"
    /\ \E file \in FileEntries : environ' = load_dotenv(environ, file)
    /\ otherKey' = environ'
    /\ otherPc' = "read"
    /\ UNCHANGED <<startKey, apiKey, library, keywordTable, widgets, shown, pc,
                   last>>

\* The other session's line 10 assigns the value it read, which may be stale
\* by now.  The rest of its run shares nothing but the catalog.
OtherAssignKey ==
    /\ otherPc = "read"
    /\ apiKey' = otherKey
    /\ otherPc' = "idle"
    /\ otherKey' = None
    /\ UNCHANGED <<environ, startKey, library, keywordTable, widgets, shown, pc,
                   last>>

\* Another session, past the test of line 12, handles a Generate action and
\* samples from the catalog.
OtherSample ==
    /\ ~CredentialMissing(environ)
    /\ \E focus \in Range(FOCUS_OPTIONS) :
         library' = library_after_sample(library, focus, 3)
    /\ UNCHANGED <<environ, startKey, apiKey, keywordTable, widgets, shown, pc,
                   last, otherPc, otherKey>>

\* A direct call of detect_sport_from_text.  The function is defined at line
\* 94, which a run reaches only past the test of line 12.
CallDetect ==
    /\ pc = "idle"
    /\ widgets # {}
    /\ \E text \in Texts :
         /\ last' = [NoFrame EXCEPT !.op = "detect", !.text = text,
                        !.ret = detect_sport_from_text(keywordTable, text)]
         /\ keywordTable' = keywords_after_detect(keywordTable, text)
    /\ pc' = "done"
    /\ UNCHANGED <<environ, startKey, apiKey, library, widgets, shown, otherPc,
                   otherKey>>

\* A direct call of sample_exercises (defined at line 104).
CallSample ==
    /\ pc = "idle"
    /\ widgets # {}
    /\ \E focus_area \in Labels, n \in Counts :
         \E o \in sample_exercises(library, focus_area, n) :
            /\ last' = [NoFrame EXCEPT !.op = "sample", !.text = focus_area, !.n = n,
                           !.raised = o.raised, !.ret = o.value]
            /\ library' = library_after_sample(library, focus_area, n)
    /\ pc' = "done"
    /\ UNCHANGED <<environ, startKey, apiKey, keywordTable, widgets, shown,
                   otherPc, otherKey>>

\* The operation returns: its frame is discarded, the page stays as it is.
Return ==
    /\ pc = "done"
    /\ pc' = "idle"
    /\ last' = NoFrame
    /\ UNCHANGED <<environ, startKey, apiKey, library, keywordTable, widgets,
                   shown, otherPc, otherKey>>

\* The application: the runs of a session, interleaved with those of another
\* session, in an environment whose .env file may change.
Next ==
    \/ ReadEnv
    \/ AssignKey
    \/ Run
    \/ Answer
    \/ Return
    \/ OtherReadEnv
    \/ OtherAssignKey
    \/ OtherSample

Spec == Init /\ [][Next]_vars

\* One session with the credential set in the environment, and a caller of
\* the two functions the script defines.
InitCalls == Init /\ environ = <<115, 107, 45, 116, 101, 115, 116>> (* sk-test *) /\ startKey = environ

NextCalls ==
    \/ ReadEnv
    \/ AssignKey
    \/ Run
    \/ Answer
    \/ Return
    \/ CallDetect
    \/ CallSample

SpecCalls == InitCalls /\ [][NextCalls]_vars

TypeOK ==
    /\ environ \in Credentials
    /\ startKey \in Credentials
    /\ apiKey \in Credentials
    /\ otherKey \in Credentials
    /\ otherPc \in {"idle", "read"}
    /\ pc \in {"idle", "read", "assigned", "waiting", "done"}
    /\ widgets \in {{}, WIDGETS}
    /\ last.op \in {"none", "run", "detect", "sample"}
    /\ pc = "idle" <=> last.op = "none"
    /\ pc \in {"read", "assigned", "waiting"} => last.op = "run"

----------------------------------------------------------------------------
(* Properties. *)

Distinct(s) == \A i, j \in DOMAIN s : i # j => s[i] # s[j]

AllWhitespace(s) == \A i \in DOMAIN s : InRuns(s[i], SpaceRuns)

\* The catalog key a label stands for: its lowercased form when that is a
\* key, "full body" otherwise.
KeyFor(label) ==
    IF lower(label) \in DOMAIN library THEN lower(label) ELSE <<102, 117, 108, 108, 32, 98, 111, 100, 121>> (* full body *)

\* C1: for every n >= 0 and every label, sample_exercises(label, n) returns
\* exactly min(n, size of the resolved label's list) entries, pairwise
\* distinct, all taken from the resolved label's list.
C1_SampleSizeDistinct ==
    (last.op = "sample" /\ last.n >= 0) =>
        LET size == Len(library[KeyFor(last.text)])
        IN  /\ ~last.raised
            /\ Len(last.ret) = (IF last.n <= size THEN last.n ELSE size)
            /\ Distinct(last.ret)
            /\ Range(last.ret) \subseteq Range(library[KeyFor(last.text)])

\* C1 witness: an unknown label with n above the list size returned the whole
\* "full body" list.
C1_Witness ==
    /\ last.op = "sample"
    /\ last.text = <<97, 114, 109, 115>> (* arms *)
    /\ last.n = 6
    /\ ~last.raised
    /\ Len(last.ret) = 5

\* C2: a label whose lowercased form is not a catalog key draws only from the
\* "full body" list, a label whose lowercased form is a key draws only from
\* that key's list, and an unknown label raises no error.
C2_LabelResolution ==
    (last.op = "sample" /\ last.n >= 0) =>
        /\ lower(last.text) \notin DOMAIN library =>
              /\ ~last.raised
              /\ Range(last.ret) \subseteq Range(library[<<102, 117, 108, 108, 32, 98, 111, 100, 121>> (* full body *)])
        /\ lower(last.text) \in DOMAIN library =>
              Range(last.ret) \subseteq Range(library[lower(last.text)])

\* C2 witness: "Upper body" drew the five entries of the "upper body" list.
C2_Witness ==
    /\ last.op = "sample"
    /\ last.text = <<85, 112, 112, 101, 114, 32, 98, 111, 100, 121>> (* Upper body *)
    /\ Range(last.ret) = Range(library[<<117, 112, 112, 101, 114, 32, 98, 111, 100, 121>> (* upper body *)])

\* C3 (as claimed): for every n <= 0 and every label, sample_exercises returns
\* an empty sequence and raises no error.
C3_NonPositiveCountEmpty ==
    (last.op = "sample" /\ last.n <= 0) => (~last.raised /\ last.ret = <<>>)

\* The declared order of the sports.
SportOrder == << <<98, 97, 115, 107, 101, 116, 98, 97, 108, 108>> (* basketball *), <<115, 111, 99, 99, 101, 114>> (* soccer *), <<114, 117, 110, 110, 105, 110, 103>> (* running *), <<116, 101, 110, 110, 105, 115>> (* tennis *), <<118, 111, 108, 108, 101, 121, 98, 97, 108, 108>> (* volleyball *) >>

\* The positions in SportOrder of the sports with a keyword occurring in the
\* lowercased text.
MatchingSports(text) ==
    LET text_lower == lower(text)
    IN  {i \in DOMAIN SportOrder :
            \E e \in DOMAIN keywordTable :
                /\ keywordTable[e].sport = SportOrder[i]
                /\ \E k \in DOMAIN keywordTable[e].keywords :
                      contains(keywordTable[e].keywords[k], text_lower)}

\* C4: detect_sport_from_text returns the first sport, in the order
\* basketball, soccer, running, tennis, volleyball, one of whose keywords is a
\* substring of the lowercased text, and None exactly when no keyword occurs.
C4_FirstDeclaredSport ==
    last.op = "detect" =>
        LET m == MatchingSports(last.text)
        IN  IF m = {} THEN last.ret = None
            ELSE /\ last.ret # None
                 /\ \E i \in m : last.ret = SportOrder[i] /\ \A j \in m : i <= j

\* C4 witness: "soccerBasketball", where the soccer keyword comes first in the
\* text, is detected as basketball.
C4_Witness ==
    /\ last.op = "detect"
    /\ last.text = <<115, 111, 99, 99, 101, 114, 66, 97, 115, 107, 101, 116, 98, 97, 108, 108>> (* soccerBasketball *)
    /\ last.ret = <<98, 97, 115, 107, 101, 116, 98, 97, 108, 108>> (* basketball *)

\* C5 (as claimed): in a Generate action whose request contains a sport
\* keyword, the three distinct names of the prompt hint are drawn from the
\* detected sport's list.
C5_HintFromDetectedSport ==
    (last.op = "run" /\ last.requests # <<>>) =>
        LET m == MatchingSports(last.text)
        IN  m # {} =>
              \E i \in m :
                  /\ \A j \in m : i <= j
                  /\ Len(last.requests[1].hint) = 3
                  /\ Distinct(last.requests[1].hint)
                  /\ Range(last.requests[1].hint) \subseteq Range(library[SportOrder[i]])

\* C6: a run that takes the branch of line 243 (Generate pressed) with an
\* empty or whitespace-only request shows the warning, sends nothing to the
\* completion service, does not call the sampler and leaves the form ready
\* for another Generate action.  (A run with the button pressed that halts at
\* line 14 never gets to line 243; it is the case of C8.)
C6_BlankRequestWarns ==
    (last.op = "run" /\ last.handled /\ AllWhitespace(last.text)) =>
        /\ pc = "done"
        /\ last.generate
        /\ Len(shown) = 1
        /\ shown[1].kind = "warning"
        /\ last.requests = <<>>
        /\ last.sampled = <<>>
        /\ {"user_message", "generate"} \subseteq widgets

\* C6 witness: Generate was pressed with a request made of a space and a
\* no-break space.
C6_Witness ==
    /\ last.op = "run"
    /\ last.handled
    /\ last.text = <<32, 160>> (*  \xa0 *)
    /\ shown = <<EMPTY_WARNING>>

\* C7: a run that takes the branch of line 243 (Generate pressed) with a
\* non-empty request calls the completion service exactly once; while the call
\* is pending nothing is shown; on failure exactly one error message carrying
\* the failure text is shown and no plan, on success the returned text is
\* rendered and no error; either way the form is ready for another Generate
\* action.
C7_OneCallOneMessage ==
    (last.op = "run" /\ last.handled /\ ~AllWhitespace(last.text)) =>
        /\ Len(last.requests) = 1
        /\ {"user_message", "generate"} \subseteq widgets
        /\ IF pc = "waiting"
           THEN shown = <<>> /\ last.answers = <<>>
           ELSE /\ Len(last.answers) = 1
                /\ IF last.answers[1].ok
                   THEN /\ Len(shown) = 2
                        /\ \A i \in DOMAIN shown : shown[i].kind = "markdown"
                        /\ shown[2].text = last.answers[1].text
                   ELSE /\ Len(shown) = 1
                        /\ shown[1].kind = "error"
                        /\ shown[1].text = ERROR_PREFIX \o last.answers[1].text

\* C7 witness: a Generate action whose completion call failed.
C7_Witness ==
    /\ last.op = "run"
    /\ last.handled
    /\ pc = "done"
    /\ Len(last.requests) = 1
    /\ Len(last.answers) = 1
    /\ ~last.answers[1].ok
    /\ shown[1].kind = "error"

\* C8 (as claimed): in no execution that starts without a credential (unset
\* or empty) is a widget rendered, Generate handled, the sampler invoked or the
\* completion service called.
C8_StartedWithoutNeverAccepts ==
    (startKey = None \/ startKey = <<>>) =>
        /\ widgets = {}
        /\ ~last.handled
        /\ last.sampled = <<>>
        /\ last.requests = <<>>

\* C8 (amended): a run whose test of line 12 finds openai.api_key absent
\* (unset or empty) shows the error and halts before any widget is rendered:
\* it handles no Generate action, does not invoke the sampler and does not
\* call the completion service; and as long as the environment holds no
\* credential, no run of the session gets further.
C8_AbsentCredentialHalts ==
    /\ (last.op = "run" /\ pc \in {"waiting", "done"}
            /\ (last.checked = None \/ last.checked = <<>>)) =>
          /\ pc = "done"
          /\ widgets = {}
          /\ Len(shown) = 1
          /\ shown[1].kind = "error"
          /\ ~last.handled
          /\ last.sampled = <<>>
          /\ last.requests = <<>>
    /\ (environ = None \/ environ = <<>>) =>
          /\ widgets = {}
          /\ last.op \in {"none", "run"}
          /\ ~last.handled
          /\ last.sampled = <<>>
          /\ last.requests = <<>>

\* C8 witness: a run that found the empty credential has shown the error.
C8_Witness ==
    /\ last.op = "run"
    /\ pc = "done"
    /\ last.checked = <<>>
    /\ shown = <<CREDENTIAL_ERROR>>

\* C9: every sport of the keyword table, every lowercased focus option and
\* "full body" (with a non-empty list) is a catalog key, so no label coming
\* from the form or from the detector takes the fallback.
C9_LabelsInCatalog ==
    /\ \A e \in DOMAIN keywordTable : keywordTable[e].sport \in DOMAIN library
    /\ \A i \in DOMAIN FOCUS_OPTIONS : lower(FOCUS_OPTIONS[i]) \in DOMAIN library
    /\ <<102, 117, 108, 108, 32, 98, 111, 100, 121>> (* full body *) \in DOMAIN library
    /\ Len(library[<<102, 117, 108, 108, 32, 98, 111, 100, 121>> (* full body *)]) > 0
    /\ (last.op = "run" /\ last.sampled # <<>>) =>
          /\ lower(last.focus) \in DOMAIN library
          /\ Range(last.sampled[1].value) \subseteq Range(library[lower(last.focus)])
    /\ (last.op = "detect" /\ last.ret # None) => last.ret \in DOMAIN library

\* C9 witness: a Generate action with focus "Upper body" sampled from the
\* catalog.
C9_Witness ==
    /\ last.op = "run"
    /\ last.focus = <<85, 112, 112, 101, 114, 32, 98, 111, 100, 121>> (* Upper body *)
    /\ last.sampled # <<>>
    /\ Range(last.sampled[1].value) \subseteq Range(library[<<117, 112, 112, 101, 114, 32, 98, 111, 100, 121>> (* upper body *)])

\* C10: after any sequence of detect, sample and Generate operations the
\* catalog and the keyword table have the keys and the sequences, in the same
\* order, they were defined with.
C10_TablesUnchanged ==
    /\ library = EXERCISE_LIBRARY
    /\ keywordTable = SPORT_KEYWORDS

\* C10 witness: a sample call that took the fallback and drew entries.
C10_Witness ==
    /\ last.op = "sample"
    /\ lower(last.text) \notin DOMAIN library
    /\ Len(last.ret) >= 1
    /\ DOMAIN library = DOMAIN EXERCISE_LIBRARY

====
